---- MODULE Spec2Model ----
(***************************************************************************)
(* Model of normalizer.py: the stem loudness pipeline                      *)
(* (adjust_stems_in_folder), its verifier (verify_output_loudness), the    *)
(* folder driver (process_folders) and the trigger (start_processing).     *)
(*                                                                         *)
(* Numbers.  Loudness, gain and target are fixed-point integers in         *)
(* micro-units (1 LUFS = 1 dB = 1000000).  A decoded AudioSegment is a     *)
(* record [samples, gain]: samples are 16-bit PCM magnitudes, one per      *)
(* 400 ms measurement block, and gain is the decibel gain applied to all   *)
(* of them, so the signal is samples * 10^(gain/20).  apply_gain adds to   *)
(* gain; the rounding of the scaled samples to integers is below the       *)
(* resolution of the model, and the levels drawn in Init keep every scaled *)
(* sample inside the 16-bit range (InRange), so audioop never saturates.   *)
(***************************************************************************)
EXTENDS Integers, Sequences, FiniteSets, TLC

\* ------------------------------------------------------------------ bounds

\* How many times the trigger is activated in one behaviour.
MaxClicks == 2

\* ------------------------------------------------------- program constants

VALID_AUDIO_EXTENSIONS == {".wav", ".mp3", ".flac", ".aac", ".ogg", ".m4a"}

\* np.isclose(a, b, atol=0.1): the absolute tolerance, 0.1 LUFS.
ATOL == 100000

\* np.isclose's default rtol is 1e-05: the tolerance grows by |b| / RTOL_DIV.
RTOL_DIV == 100000

\* pyloudnorm: integrated loudness is -0.691 + 10 log10(mean square).
K_OFFSET == -691000

\* soundfile.read scales 16-bit PCM to [-1, 1) by dividing by 2^15.
FULL_SCALE == 32768

\* loudness_entry.insert(0, "-14.0"): the default target.
DEFAULT_TARGET == -14000000

\* ---------------------------------------------------------------- numbers

Abs(x) == IF x < 0 THEN -x ELSE x

\* 10 * log10(p) in micro-dB for the primes the model's levels factor into.
Primes == {2, 3, 5, 7, 11, 13, 17, 19, 23, 29, 31, 37, 41, 43, 47}

PrimeTenLog10(p) ==
  CASE p = 2 -> 3010300 [] p = 3 -> 4771213 [] p = 5 -> 6989700
    [] p = 7 -> 8450980 [] p = 11 -> 10413927 [] p = 13 -> 11139434
    [] p = 17 -> 12304489 [] p = 19 -> 12787536 [] p = 23 -> 13617278
    [] p = 29 -> 14623980 [] p = 31 -> 14913617 [] p = 37 -> 15682017
    [] p = 41 -> 16127839 [] p = 43 -> 16334685 [] p = 47 -> 16720979

\* 10 * log10(n) in micro-dB, n >= 1, additive over the prime factors of n.
RECURSIVE TenLog10(_)
TenLog10(n) ==
  IF n = 1 THEN 0
  ELSE LET p == CHOOSE q \in Primes : n % q = 0
       IN PrimeTenLog10(p) + TenLog10(n \div p)

RECURSIVE SumSeq(_)
SumSeq(s) == IF s = <<>> THEN 0 ELSE Head(s) + SumSeq(Tail(s))

\* ------------------------------------------------------------ audio values

\* What a file holds.  kind is "audio" (decodable: samples and gain),
\* "corrupt" (AudioSegment.from_file raises), "text" or "none" (no file).
Audio(s, g) == [kind |-> "audio", samples |-> s, gain |-> g]
Corrupt == [kind |-> "corrupt", samples |-> <<>>, gain |-> 0]
Text == [kind |-> "text", samples |-> <<>>, gain |-> 0]
NoFile == [kind |-> "none", samples |-> <<>>, gain |-> 0]

\* AudioSegment.silent(duration=...): that many blocks of zeros.
Silent(duration) == [samples |-> [j \in 1..duration |-> 0], gain |-> 0]

\* Mutant: the stem replaces what the mix holds instead of being added to it.
OverlayReplacing(mix, stem) ==
  [samples |-> [j \in 1..Len(mix.samples) |->
                  IF j <= Len(stem.samples) THEN stem.samples[j] ELSE mix.samples[j]],
   gain |-> stem.gain]

\* main_mix.overlay(stem): the sum aligned at time zero, over the length of
\* main_mix; what stem holds beyond it is dropped, where stem has ended
\* nothing is added.
Overlay(mix, stem) ==
  [samples |-> [j \in 1..Len(mix.samples) |->
                  mix.samples[j] + (IF j <= Len(stem.samples) THEN stem.samples[j] ELSE 0)],
   gain |-> stem.gain]

\* The loop "for i, stem in enumerate(stems): main_mix = main_mix.overlay(stem)".
RECURSIVE OverlayAll(_, _)
OverlayAll(mix, stems) ==
  IF stems = <<>> THEN mix ELSE OverlayAll(Overlay(mix, Head(stems)), Tail(stems))

\* Mutant: the silent buffer as long as the longest stem.
CombineLongest(stems) ==
  OverlayAll(Silent(CHOOSE n \in {Len(stems[k].samples) : k \in 1..Len(stems)} :
                      \A k \in 1..Len(stems) : Len(stems[k].samples) <= n),
             stems)

\* main_mix = AudioSegment.silent(duration of stems[0]), then every stem overlaid.
Combine(stems) == OverlayAll(Silent(Len(stems[1].samples)), stems)

\* Energy of each block, and the blocks that pass the meter's relative gate
\* (more than a tenth of the mean energy, i.e. within 10 LU of the mean).
Energy(seg) == [j \in 1..Len(seg.samples) |-> seg.samples[j] * seg.samples[j]]

Gated(seg) ==
  LET z == Energy(seg)
  IN {j \in 1..Len(z) : z[j] * Len(z) > SumSeq(z) \div 10}

\* pyloudnorm refuses audio shorter than one block.
Measurable(seg) == Len(seg.samples) >= 1

\* calculate_loudness: K_OFFSET + 10 log10(mean energy of the gated blocks of
\* the samples scaled to full scale 1), shifted by the gain applied to them.
calculate_loudness(audio_segment) ==
  LET z == Energy(audio_segment)
      J == Gated(audio_segment)
      total == SumSeq([j \in 1..Len(z) |-> IF j \in J THEN z[j] ELSE 0])
  IN K_OFFSET + TenLog10(total) - TenLog10(Cardinality(J))
       - 2 * TenLog10(FULL_SCALE) + audio_segment.gain

\* Mutant: the gain is dropped, the stem returned as it was.
adjust_gain_dropped(audio_segment, gain_dB) == audio_segment

adjust_gain(audio_segment, gain_dB) ==
  [audio_segment EXCEPT !.gain = @ + gain_dB]

\* np.isclose(a, b, atol=0.1): |a - b| <= atol + rtol * |b|.
isclose(a, b) == Abs(a - b) <= ATOL + Abs(b) \div RTOL_DIV

\* ------------------------------------------------------------- file system

\* A filename is <<base, extension>>.
FileNames == {<<"a", ".wav">>, <<"b", ".WAV">>, <<"n", ".txt">>}

\* str.lower() on the extensions in use.
Lower(ext) == IF ext = ".WAV" THEN ".wav" ELSE ext

\* Mutant: the extension test left out.
RecognizedAny(filename) == TRUE

\* any(filename.lower().endswith(ext) for ext in VALID_AUDIO_EXTENSIONS)
Recognized(filename) == \E ext \in VALID_AUDIO_EXTENSIONS : Lower(filename[2]) = ext

\* A directory: whether it exists, and what each filename holds in it.
NoDir == [exists |-> FALSE, files |-> [f \in FileNames |-> NoFile]]
Dir(files) == [exists |-> TRUE, files |-> files]

\* os.listdir(folder) filtered by the extension test: the recognized names.
AudioNames(dir) == {f \in FileNames : dir.files[f].kind # "none" /\ Recognized(f)}

\* os.listdir returns names in an arbitrary order, the same on every call for
\* an unchanged directory: here ascending or descending by name, as the file
\* system the directory lies on has it.
FileRank(name) ==
  CASE name = <<"a", ".wav">> -> 1 [] name = <<"b", ".WAV">> -> 2 [] name = <<"n", ".txt">> -> 3

SubRank(name) == IF name = "s1" THEN 1 ELSE 2

Orders(S) ==
  {o \in [1..Cardinality(S) -> S] : \A j, k \in 1..Cardinality(S) : j # k => o[j] # o[k]}

Listed(S, rank, direction) ==
  CHOOSE o \in Orders(S) :
    \A j, k \in 1..Cardinality(S) :
      j < k => IF direction = "ascending" THEN rank[o[j]] < rank[o[k]]
               ELSE rank[o[j]] > rank[o[k]]

SubNames == {"s1", "s2"}
Targets == {DEFAULT_TARGET, -23000000}

\* f"{song_name}_{target_loudness_LUFS}LUFS" under the output root.
OutName(song_name, target) == <<song_name, target>>
OutNames == {OutName(s, t) : s \in SubNames, t \in Targets}

\* --------------------------------------------------------- initial content

Long == Audio(<<4096, 4096>>, 0)
Short == Audio(<<4096>>, 0)
\* A file with a recognized name holding less than one measurement block.
Blip == Audio(<<>>, 0)
\* A stem left by some earlier tool: 4096 raised by 4.8529 dB, which puts the
\* loudness of the folder 0.1001 LUFS above the default target.
Stale == Audio(<<4096>>, 4852900)
\* A stem as long as Long, its first block at half the level.
Quiet == Audio(<<2048, 4096>>, 0)

Files(a, b, n) ==
  [f \in FileNames |-> IF f = <<"a", ".wav">> THEN a ELSE IF f = <<"b", ".WAV">> THEN b ELSE n]

\* What the subfolder "s1" may hold: nothing, a text file only, two stems of
\* different durations beside a text file, or a stem beside an unreadable one.
StemFolders ==
  {Dir(Files(NoFile, NoFile, NoFile)), Dir(Files(NoFile, NoFile, Text)),
   Dir(Files(Long, Short, Text)), Dir(Files(Corrupt, Short, NoFile))}

\* What the subfolder "s2" may hold: one stem, readable, unreadable or too
\* short, or two different stems of the same duration.
OtherFolders ==
  {Dir(Files(Long, NoFile, NoFile)), Dir(Files(Corrupt, NoFile, NoFile)),
   Dir(Files(Blip, NoFile, NoFile)), Dir(Files(Long, Quiet, NoFile))}

\* The input folder: it may be missing, or hold no subfolder, or "s1", or "s1"
\* and "s2"; when it exists it also holds the plain file "readme".
InputFolders ==
  {[exists |-> FALSE, plain |-> {}, subs |-> [s \in SubNames |-> NoDir]]}
  \cup {[exists |-> TRUE, plain |-> {"readme"}, subs |-> [s \in SubNames |-> NoDir]]}
  \cup {[exists |-> TRUE, plain |-> {"readme"},
          subs |-> [s \in SubNames |-> IF s = "s1" THEN d1 ELSE d2]] :
          d1 \in StemFolders, d2 \in {NoDir} \cup OtherFolders}

\* os.listdir(input_folder), and os.path.isdir on one of its entries.
Entries(folder) == {s \in SubNames : folder.subs[s].exists} \cup folder.plain
IsDir(folder, name) == name \in SubNames /\ folder.subs[name].exists

\* What the output root may hold before the first run: nothing, or a folder
\* with the name the default target gives "s1", empty or holding a stem and
\* a text file.
OutputRoots ==
  {[o \in OutNames |-> IF o = OutName("s1", DEFAULT_TARGET) THEN d ELSE NoDir] :
     d \in {NoDir, Dir(Files(NoFile, NoFile, NoFile)), Dir(Files(Stale, NoFile, Text))}}

\* ------------------------------------------------------------------- state

Workers == 1..MaxClicks

VARIABLES
  input,       \* the input folder (never written by the program)
  listing,     \* the listing direction of the input and of the output file system
  entry,       \* the number in loudness_entry
  output,      \* the output root: OutName -> directory
  button,      \* process_button's state: "normal" or "disabled"
  progress,    \* the progress bar: [maximum, value]
  clicks,      \* how many worker threads start_processing has started
  pc,          \* per worker: where its process_folders call stands
  target,      \* per worker: target_loudness_LUFS
  subfolders,  \* per worker: the list built at line 80
  idx,         \* per worker: i of "for i, subfolder_path in enumerate(subfolders, 1)"
  raised,      \* per worker: the exception that left the try block, or ""
  log,         \* per worker: what its run has printed so far
  shown,       \* per worker: the message boxes its run has shown so far
  adj,         \* per worker: the locals of its last adjust_stems_in_folder call
  ver          \* per worker: the locals of its last verify_output_loudness call

vars == <<input, listing, entry, output, button, progress, clicks, pc, target, subfolders, idx,
          raised, log, shown, adj, ver>>

Line(msg, folder) == [msg |-> msg, folder |-> folder]

NoAdj == [raised |-> "", prints |-> <<>>, filenames |-> <<>>, stems |-> <<>>,
          mix |-> <<>>, loudness |-> 0, gain |-> 0, adjusted |-> <<>>, wrote |-> FALSE]
NoVer == [raised |-> "", prints |-> <<>>, stems |-> <<>>, mix |-> <<>>, loudness |-> 0,
          result |-> "none"]

\* The stems decoded from the names in listing order; decoding stops at the
\* first file AudioSegment.from_file cannot read.
Decoded(dir, order) == [k \in 1..Len(order) |-> dir.files[order[k]]]
\* Mutant: a file that cannot be decoded is not noticed.
UndecodableIgnored(dir, order) == FALSE

Undecodable(dir, order) == \E k \in 1..Len(order) : dir.files[order[k]].kind # "audio"

\* Mutant: the adjusted stems exported in reverse, the pairing with the
\* filenames lost.
ExportedUnpaired(old_files, filenames, adjusted_stems) ==
  [f \in FileNames |->
     IF \E k \in 1..Len(filenames) : filenames[k] = f
     THEN adjusted_stems[Len(filenames) + 1
                         - (CHOOSE k \in 1..Len(filenames) : filenames[k] = f)]
     ELSE old_files[f]]

\* The export loop: every filename overwritten with its adjusted stem, the
\* other files of the folder left as they were.
Exported(old_files, filenames, adjusted_stems) ==
  [f \in FileNames |->
     IF \E k \in 1..Len(filenames) : filenames[k] = f
     THEN adjusted_stems[CHOOSE k \in 1..Len(filenames) : filenames[k] = f]
     ELSE old_files[f]]

\* Mutant: a call that raised removes what the output root holds.
WrittenCleaning(out, out_name, r) ==
  IF r.wrote
  THEN [out EXCEPT ![out_name] = Dir(Exported(out[out_name].files, r.filenames, r.adjusted))]
  ELSE IF r.raised # "" THEN [o \in OutNames |-> NoDir] ELSE out

\* The output root after a call of adjust_stems_in_folder with result r: the
\* folder out_name made if missing (line 52) and the stems exported into it
\* (lines 54-56) when the call got that far, everything else as it was.
Written(out, out_name, r) ==
  IF r.wrote
  THEN [out EXCEPT ![out_name] = Dir(Exported(out[out_name].files, r.filenames, r.adjusted))]
  ELSE out

\* adjust_stems_in_folder, order being the recognized names as os.listdir
\* returned them: what it raised, printed and computed.
adjust_stems_in_folder(song_name, stems_folder, order, target_loudness_LUFS) ==
  IF Undecodable(stems_folder, order)
  THEN [NoAdj EXCEPT !.raised = "DecodeError"]
  ELSE LET stems == Decoded(stems_folder, order) IN
    IF stems = <<>>
    THEN [NoAdj EXCEPT !.prints = <<Line("No audio files found", song_name)>>]
    ELSE LET main_mix == Combine(stems) IN
      IF ~Measurable(main_mix)
      THEN [NoAdj EXCEPT !.raised = "ValueError", !.filenames = order, !.stems = stems]
      ELSE LET combined_loudness_LUFS == calculate_loudness(main_mix)
               gain_adjustment_dB == target_loudness_LUFS - combined_loudness_LUFS
           IN [raised |-> "",
               prints |-> <<Line("Detected audio loudness", song_name),
                            Line("Gain to apply to every stem", song_name),
                            Line("Adjusted stems saved", song_name)>>,
               filenames |-> order,
               stems |-> stems,
               mix |-> main_mix.samples,
               loudness |-> combined_loudness_LUFS,
               gain |-> gain_adjustment_dB,
               adjusted |-> [k \in 1..Len(stems) |-> adjust_gain(stems[k], gain_adjustment_dB)],
               wrote |-> TRUE]

\* verify_output_loudness, for the order in which os.listdir returned the
\* recognized names of the output folder.
verify_output_loudness(song_name, output_folder, order, target_loudness_LUFS) ==
  IF ~output_folder.exists
  THEN [NoVer EXCEPT !.raised = "FileNotFoundError"]
  ELSE IF Undecodable(output_folder, order)
  THEN [NoVer EXCEPT !.raised = "DecodeError"]
  ELSE LET stems == Decoded(output_folder, order) IN
    IF stems = <<>>
    THEN \* line 68 formats stems_folder, a name this function does not have
         [NoVer EXCEPT !.raised = "NameError"]
    ELSE LET main_mix == Combine(stems) IN
      IF ~Measurable(main_mix)
      THEN [NoVer EXCEPT !.raised = "ValueError", !.stems = stems]
      ELSE LET combined_loudness_LUFS == calculate_loudness(main_mix)
           IN [raised |-> "",
               prints |-> <<Line("Combined loudness of output stems", song_name)>>,
               stems |-> stems,
               mix |-> main_mix.samples,
               loudness |-> combined_loudness_LUFS,
               result |-> IF isclose(combined_loudness_LUFS, target_loudness_LUFS)
                          THEN "True" ELSE "False"]

\* ----------------------------------------------------------------- actions

\* Every stem found in the output root before the first run lies under a
\* name the run writes again, or in a folder whose input has no stems.
Overwritten(in, out) ==
  \A s \in SubNames, t \in Targets, f \in FileNames :
    out[OutName(s, t)].files[f].kind = "audio"
      => AudioNames(in.subs[s]) = {} \/ f \in AudioNames(in.subs[s])

Init ==
  /\ input \in InputFolders
  /\ output \in OutputRoots
  /\ Overwritten(input, output)
  /\ listing \in [{"input", "output"} -> {"ascending", "descending"}]
  /\ entry \in Targets
  /\ button = "normal"
  /\ progress = [maximum |-> 100, value |-> 0]
  /\ clicks = 0
  /\ pc = [w \in Workers |-> "idle"]
  /\ target = [w \in Workers |-> DEFAULT_TARGET]
  /\ subfolders = [w \in Workers |-> <<>>]
  /\ idx = [w \in Workers |-> 0]
  /\ raised = [w \in Workers |-> ""]
  /\ log = [w \in Workers |-> <<>>]
  /\ shown = [w \in Workers |-> <<>>]
  /\ adj = [w \in Workers |-> NoAdj]
  /\ ver = [w \in Workers |-> NoVer]

\* The Normalize button is pressed: its command runs only while the button
\* is enabled, reads the target from the entry and starts a worker thread.
start_processing(w) ==
  /\ button = "normal"
  /\ clicks < MaxClicks
  /\ w = clicks + 1
  /\ clicks' = w
  /\ target' = [target EXCEPT ![w] = entry]
  /\ pc' = [pc EXCEPT ![w] = "disable"]
  /\ UNCHANGED <<input, listing, entry, output, button, progress, subfolders,
                 idx, raised, log, shown, adj, ver>>

\* line 78: button.config(state=tk.DISABLED)
DisableButton(w) ==
  /\ pc[w] = "disable"
  /\ button' = "disabled"
  /\ pc' = [pc EXCEPT ![w] = "list"]
  /\ UNCHANGED <<input, listing, entry, output, progress, clicks, target,
                 subfolders, idx, raised, log, shown, adj, ver>>

\* lines 80-82: the subdirectories of the input folder, in listing order, and
\* the progress maximum; os.listdir raises when the folder is missing.
ListSubfolders(w) ==
  /\ pc[w] = "list"
  /\ IF ~input.exists
     THEN /\ raised' = [raised EXCEPT ![w] = "FileNotFoundError"]
          /\ pc' = [pc EXCEPT ![w] = "except"]
          /\ UNCHANGED <<subfolders, idx, progress>>
     ELSE LET order == Listed({s \in Entries(input) : IsDir(input, s)},
                              [s \in SubNames |-> SubRank(s)],
                              listing["input"]) IN
          /\ subfolders' = [subfolders EXCEPT ![w] = order]
          /\ progress' = [progress EXCEPT !.maximum = Len(order)]
          /\ idx' = [idx EXCEPT ![w] = IF order = <<>> THEN 0 ELSE 1]
          /\ pc' = [pc EXCEPT ![w] = IF order = <<>> THEN "showinfo" ELSE "adjust"]
          /\ UNCHANGED raised
  /\ UNCHANGED <<input, listing, entry, output, button, clicks, target, log,
                 shown, adj, ver>>

\* Mutant: the verification is skipped once the folder is written.
NextAfterAdjustSkipping(r) == IF r.raised # "" THEN "except" ELSE "showinfo"

\* Mutant: a failed verdict is treated as an error; and: an exception is
\* swallowed and the loop goes on.
NextAfterVerifyAborting(r, i, total_subfolders) ==
  IF r.raised # "" \/ r.result = "False" THEN "except"
  ELSE IF i < total_subfolders THEN "adjust" ELSE "showinfo"

NextAfterVerifySwallowing(r, i, total_subfolders) ==
  IF i < total_subfolders THEN "adjust" ELSE "showinfo"

\* Where process_folders goes after line 85: an exception leaves the try block
\* for the except clause, a return leads to the verification of the folder.
NextAfterAdjust(r) == IF r.raised # "" THEN "except" ELSE "verify"

\* Where process_folders goes after lines 88-93: an exception leaves the try
\* block; otherwise, whatever the verdict, the loop takes the next subfolder,
\* and after the last one the success box is shown.
NextAfterVerify(r, i, total_subfolders) ==
  IF r.raised # "" THEN "except"
  ELSE IF i < total_subfolders THEN "adjust" ELSE "showinfo"

\* lines 84-85: print the folder, then the whole of adjust_stems_in_folder.
AdjustStems(w) ==
  /\ pc[w] = "adjust"
  /\ LET song_name == subfolders[w][idx[w]]
         stems_folder == input.subs[song_name]
         out_name == OutName(song_name, target[w])
         order == Listed(AudioNames(stems_folder), [f \in FileNames |-> FileRank(f)],
                         listing["input"])
         r == adjust_stems_in_folder(song_name, stems_folder, order, target[w])
     IN /\ adj' = [adj EXCEPT ![w] = r]
        /\ log' = [log EXCEPT ![w] = @ \o <<Line("Processing folder", song_name)>> \o r.prints]
        /\ output' = Written(output, out_name, r)
        /\ raised' = [raised EXCEPT ![w] = r.raised]
        /\ pc' = [pc EXCEPT ![w] = NextAfterAdjust(r)]
  /\ UNCHANGED <<input, listing, entry, button, progress, clicks, target,
                 subfolders, idx, shown, ver>>

\* lines 86-93: verify_output_loudness on the output subfolder, the verdict
\* printed, the progress value set to i, and on to the next subfolder.
VerifyOutput(w) ==
  /\ pc[w] = "verify"
  /\ LET song_name == subfolders[w][idx[w]]
         output_subfolder == output[OutName(song_name, target[w])]
         order == Listed(AudioNames(output_subfolder), [f \in FileNames |-> FileRank(f)],
                         listing["output"])
         r == verify_output_loudness(song_name, output_subfolder, order, target[w])
         next == NextAfterVerify(r, idx[w], Len(subfolders[w]))
     IN /\ ver' = [ver EXCEPT ![w] = r]
        /\ raised' = [raised EXCEPT ![w] = r.raised]
        /\ log' = [log EXCEPT ![w] =
                     IF r.raised # "" THEN @
                     ELSE @ \o r.prints \o
                          <<Line(IF r.result = "True" THEN "Loudness verification passed"
                                 ELSE "Loudness verification failed", song_name)>>]
        /\ progress' = IF r.raised # "" THEN progress
                       ELSE [progress EXCEPT !.value = idx[w]]
        /\ idx' = [idx EXCEPT ![w] = IF next = "adjust" THEN @ + 1 ELSE @]
        /\ pc' = [pc EXCEPT ![w] = next]
  /\ UNCHANGED <<input, listing, entry, output, button, clicks, target,
                 subfolders, shown, adj>>

\* line 94: messagebox.showinfo("Success", ...)
ShowInfo(w) ==
  /\ pc[w] = "showinfo"
  /\ shown' = [shown EXCEPT ![w] = Append(@, "Success")]
  /\ pc' = [pc EXCEPT ![w] = "finally"]
  /\ UNCHANGED <<input, listing, entry, output, button, progress, clicks,
                 target, subfolders, idx, raised, log, adj, ver>>

\* lines 95-96: except Exception: messagebox.showerror("Error", ...)
ShowError(w) ==
  /\ pc[w] = "except"
  /\ shown' = [shown EXCEPT ![w] = Append(@, "Error")]
  /\ pc' = [pc EXCEPT ![w] = "finally"]
  /\ UNCHANGED <<input, listing, entry, output, button, progress, clicks,
                 target, subfolders, idx, raised, log, adj, ver>>

\* lines 97-99: finally: the button enabled again, the progress value reset;
\* the call returns, and the record of the run (locals, prints, message boxes)
\* is dropped with it.
Finally(w) ==
  /\ pc[w] = "finally"
  /\ button' = "normal"
  /\ progress' = [progress EXCEPT !.value = 0]
  /\ pc' = [pc EXCEPT ![w] = "done"]
  /\ subfolders' = [subfolders EXCEPT ![w] = <<>>]
  /\ idx' = [idx EXCEPT ![w] = 0]
  /\ raised' = [raised EXCEPT ![w] = ""]
  /\ log' = [log EXCEPT ![w] = <<>>]
  /\ shown' = [shown EXCEPT ![w] = <<>>]
  /\ adj' = [adj EXCEPT ![w] = NoAdj]
  /\ ver' = [ver EXCEPT ![w] = NoVer]
  /\ UNCHANGED <<input, listing, entry, output, clicks, target>>

process_folders(w) ==
  \/ DisableButton(w)
  \/ ListSubfolders(w)
  \/ AdjustStems(w)
  \/ VerifyOutput(w)
  \/ ShowInfo(w)
  \/ ShowError(w)
  \/ Finally(w)

Next == \E w \in Workers : start_processing(w) \/ process_folders(w)

Spec == Init /\ [][Next]_vars

\* ------------------------------------------------------ model assumptions

\* Every stem of an output folder carries the same gain, so a mix has one.
UniformGain ==
  \A o \in OutNames : \A f, g \in AudioNames(output[o]) :
    output[o].files[f].kind = "audio" /\ output[o].files[g].kind = "audio"
      => output[o].files[f].gain = output[o].files[g].gain

\* No mix of an output folder reaches full scale: no sample saturates.
InRange ==
  \A o \in OutNames : \A f \in AudioNames(output[o]) :
    LET seg == output[o].files[f]
    IN \A j \in 1..Len(seg.samples) :
         2 * TenLog10(Cardinality(AudioNames(output[o])) * seg.samples[j]) + seg.gain
           < 2 * TenLog10(FULL_SCALE)

\* ------------------------------------------------------------------- claims

Last(s) == s[Len(s)]

Running(w) == pc[w] \in {"list", "adjust", "verify", "showinfo", "except", "finally"}

\* The subfolder worker w is at, once its loop has started.
Current(w) == subfolders[w][idx[w]]

\* A step of worker w that is its call of adjust_stems_in_folder, and one that
\* is its call of verify_output_loudness.
AdjustStep(w) == pc[w] = "adjust" /\ pc'[w] # "adjust"
VerifyStep(w) == pc[w] = "verify" /\ pc'[w] # "verify"

\* C1: when adjust_stems_in_folder has processed a non-empty stem set, the one
\* gain it computed is the target minus the loudness of the combined mix of
\* the decoded stems, every adjusted stem is its original with exactly that
\* gain added, and every stem's file in the output folder holds it.
C1_OneGainForAllStems ==
  \A w \in Workers :
    pc[w] = "verify" /\ adj[w].wrote =>
      LET stems == Decoded(input.subs[Current(w)], adj[w].filenames)
          gain == target[w] - calculate_loudness(Combine(stems))
          out == output[OutName(Current(w), target[w])]
      IN /\ Len(stems) >= 1
         /\ adj[w].gain = gain
         /\ Len(adj[w].adjusted) = Len(stems)
         /\ \A k \in 1..Len(stems) :
              /\ adj[w].adjusted[k].samples = stems[k].samples
              /\ adj[w].adjusted[k].gain = stems[k].gain + gain
              /\ out.files[adj[w].filenames[k]] = adj[w].adjusted[k]

C1_Witness ==
  \E w \in Workers :
    pc[w] = "verify" /\ adj[w].wrote /\ Len(adj[w].stems) = 2 /\ adj[w].gain # 0

\* C2: whenever verify_output_loudness has returned for a folder that
\* adjust_stems_in_folder has just written, it has returned true.
C2_RoundTripWithinTolerance ==
  \A w \in Workers :
    pc[w] \in {"adjust", "showinfo"} /\ adj[w].wrote /\ ver[w].result # "none"
      => ver[w].result = "True"

\* C3: a run is never in its except clause while the subfolder it is at is
\* one without any recognized audio file.
C3_EmptyFolderIsSkipped ==
  \A w \in Workers :
    pc[w] = "except" /\ idx[w] >= 1 => AudioNames(input.subs[Current(w)]) # {}

\* C4: a call of verify_output_loudness on an existing output folder without
\* any recognized audio file raises nothing, returns no pass, prints a line,
\* and the driver goes on as after a failed verification.
C4_EmptyOutputIsInconclusive ==
  [][\A w \in Workers :
       VerifyStep(w)
       /\ output[OutName(Current(w), target[w])].exists
       /\ AudioNames(output[OutName(Current(w), target[w])]) = {}
       => /\ raised'[w] = ""
          /\ ver'[w].result # "True"
          /\ Len(log'[w]) > Len(log[w])
          /\ pc'[w] \in {"adjust", "showinfo"}]_vars

\* C5: whenever verify_output_loudness has returned a verdict, the verdict is
\* true exactly when the re-measured loudness is within 0.1 LUFS of the target.
C5_VerdictIsTolerance ==
  \A w \in Workers :
    ver[w].result # "none" =>
      (ver[w].result = "True" <=> Abs(ver[w].loudness - target[w]) <= ATOL)

\* C6: within a run, the verification of a subfolder starts only when the
\* pipeline of that subfolder has returned, a returned pipeline is followed by
\* its verification, and the loop index advances, by one, only on the step
\* that completes the verification.
C6_StrictlySequential ==
  [][\A w \in Workers :
       /\ (pc'[w] = "verify" /\ pc[w] # "verify")
            => pc[w] = "adjust" /\ idx'[w] = idx[w] /\ adj'[w].raised = ""
       /\ (AdjustStep(w) /\ adj'[w].raised = "") => pc'[w] = "verify"
       /\ (idx'[w] > idx[w])
            => \/ pc[w] = "list" /\ idx'[w] = 1 /\ pc'[w] = "adjust"
               \/ /\ pc[w] = "verify" /\ idx'[w] = idx[w] + 1 /\ pc'[w] = "adjust"
                  /\ ver'[w].result # "none"
       /\ (pc'[w] = "adjust" /\ pc[w] # "adjust") => pc[w] \in {"list", "verify"}]_vars

C6_Witness ==
  \E w \in Workers : pc[w] = "verify" /\ idx[w] = 2 /\ ver[w].result # "none"

\* C7: a verification that fails raises nothing; the failure is printed for
\* that folder and the loop goes on to the next subfolder, or to the success
\* box after the last one.
C7_FailedVerificationGoesOn ==
  [][\A w \in Workers :
       VerifyStep(w) /\ ver'[w].result = "False"
       => /\ raised'[w] = ""
          /\ Last(log'[w]) = Line("Loudness verification failed", Current(w))
          /\ IF idx[w] < Len(subfolders[w])
             THEN pc'[w] = "adjust" /\ idx'[w] = idx[w] + 1
             ELSE pc'[w] = "showinfo" /\ idx'[w] = idx[w]]_vars

C7_Witness ==
  \E w \in Workers :
    /\ pc[w] = "adjust" /\ idx[w] = 2
    /\ Last(log[w]) = Line("Loudness verification failed", subfolders[w][1])

\* C8: once a step of a run has raised, the run processes nothing more (its
\* index, its prints and its place stay until the except clause has run),
\* shows exactly one error box and no success box.
C8_ExceptionAbortsBatch ==
  /\ [](\A w \in Workers :
          /\ raised[w] # "" => pc[w] \in {"except", "finally"}
          /\ pc[w] = "except" => raised[w] # "" /\ shown[w] = <<>>
          /\ pc[w] = "finally" /\ raised[w] # "" => shown[w] = <<"Error">>)
  /\ [][\A w \in Workers :
          raised[w] # "" /\ pc'[w] # "done"
          => idx'[w] = idx[w] /\ log'[w] = log[w] /\ adj'[w] = adj[w] /\ ver'[w] = ver[w]]_vars

C8_Witness ==
  \E w \in Workers :
    /\ pc[w] = "finally" /\ raised[w] = "DecodeError" /\ shown[w] = <<"Error">>
    /\ idx[w] < Len(subfolders[w])

\* C9: while a run is between its disabling of the trigger and its return,
\* the trigger is disabled, and the step on which a run returns leaves the
\* trigger enabled and the progress value 0.
C9_TriggerDisabledWhileRunning ==
  /\ [](\A w \in Workers : Running(w) => button = "disabled")
  /\ [][\A w \in Workers :
          pc[w] # "done" /\ pc'[w] = "done" => button' = "normal" /\ progress'.value = 0]_vars

\* C10: a call of adjust_stems_in_folder on a folder that holds files, all of
\* them with the unsupported extension .txt, prints "No audio files found", raises nothing
\* and leaves the input folder and the output root as they were.
C10_UnsupportedOnlyWritesNothing ==
  [][\A w \in Workers :
       AdjustStep(w)
       /\ (\E f \in FileNames : input.subs[Current(w)].files[f].kind # "none")
       /\ (\A f \in FileNames : input.subs[Current(w)].files[f].kind # "none" => f[2] = ".txt")
       => /\ raised'[w] = ""
          /\ Last(log'[w]) = Line("No audio files found", Current(w))
          /\ output' = output
          /\ input' = input]_vars

C10_Witness ==
  \E w \in Workers :
    /\ pc[w] = "verify"
    /\ Last(log[w]) = Line("No audio files found", Current(w))
    /\ input.subs[Current(w)].files[<<"n", ".txt">>].kind = "text"
    /\ \A o \in OutNames : ~output[o].exists

\* C11: the step on which adjust_stems_in_folder completes with stems leaves
\* the output folder <subfolder>_<target>LUFS existing and holding, under the
\* filename of every recognized file of the subfolder, that file's stem with
\* the gain of the call added (whether or not the folder existed before).
C11_OutputPairsFilenames ==
  [][\A w \in Workers :
       AdjustStep(w) /\ adj'[w].wrote
       => LET stems_folder == input.subs[Current(w)]
              out == output'[OutName(Current(w), target[w])]
          IN /\ out.exists
             /\ AudioNames(stems_folder) # {}
             /\ \A f \in AudioNames(stems_folder) :
                  out.files[f] = adjust_gain(stems_folder.files[f], adj'[w].gain)]_vars

\* Two stems of different durations written into a folder that existed before
\* (the text file in it is none the program writes) and held another stem.
C11_Witness ==
  \E w \in Workers :
    LET out == output[OutName(Current(w), target[w])]
    IN /\ pc[w] = "verify" /\ adj[w].wrote /\ Len(adj[w].filenames) = 2
       /\ out.files[<<"n", ".txt">>].kind = "text"
       /\ out.files[<<"a", ".wav">>] = adjust_gain(Long, adj[w].gain)
       /\ out.files[<<"b", ".WAV">>] = adjust_gain(Short, adj[w].gain)

\* C12: a step of a run that raises, and every later step of that run, leaves
\* the output folder of each subfolder the run processed before the one it is
\* at exactly as it was.
C12_FailureKeepsEarlierOutput ==
  [][\A w \in Workers :
       pc'[w] # pc[w] /\ (raised'[w] # "" \/ raised[w] # "")
       => \A k \in 1..(idx[w] - 1) :
            output'[OutName(subfolders[w][k], target[w])]
              = output[OutName(subfolders[w][k], target[w])]]_vars

\* The only run has written the stems of its first subfolder into a folder
\* that did not exist before, and has raised at its second.
C12_Witness ==
  \E w \in Workers :
    /\ clicks = 1 /\ pc[w] = "except" /\ idx[w] = 2
    /\ target[w] # DEFAULT_TARGET
    /\ AudioNames(output[OutName(subfolders[w][1], target[w])]) # {}

\* A run is inside its loop over the subfolders.
InLoop(w) == pc[w] \in {"adjust", "verify"}

\* C13: while a run is in its loop the progress maximum is the number of
\* subdirectories of the input folder and the value does not exceed it; the
\* step that completes the verification of the i-th subfolder sets the value
\* to i; and no step taken while a run is in its loop lowers the value.
C13_ProgressCountsFolders ==
  /\ [](\A w \in Workers :
          InLoop(w) => /\ progress.maximum = Cardinality({s \in SubNames : input.subs[s].exists})
                       /\ progress.value <= progress.maximum)
  /\ [][\A w \in Workers :
          VerifyStep(w) /\ raised'[w] = "" => progress'.value = idx[w]]_vars
  /\ [][(\E w \in Workers : InLoop(w)) => progress'.value >= progress.value]_vars

\* The thread of worker w has been started and its run has not returned.
Started(w) == pc[w] \notin {"idle", "done"}

\* C14: at most one worker thread is running at any time.
C14_AtMostOneWorker == Cardinality({w \in Workers : Started(w)}) <= 1

\* What the stems hold together at block j: a stem that has ended holds zero.
RECURSIVE SumAt(_, _)
SumAt(stems, j) ==
  IF stems = <<>> THEN 0
  ELSE (IF j <= Len(Head(stems).samples) THEN Head(stems).samples[j] ELSE 0)
       + SumAt(Tail(stems), j)

IsFirstStemMix(mix, stems) ==
  /\ Len(mix) = Len(stems[1].samples)
  /\ \A j \in 1..Len(mix) : mix[j] = SumAt(stems, j)

\* C15: the mix adjust_stems_in_folder has built, and the mix
\* verify_output_loudness has built, is as long as the first stem of the
\* sequence and holds at every block the sum of what the stems hold there.
C15_MixHasFirstStemDuration ==
  \A w \in Workers :
    /\ adj[w].wrote => IsFirstStemMix(adj[w].mix, adj[w].stems)
    /\ ver[w].result # "none" => IsFirstStemMix(ver[w].mix, ver[w].stems)

\* One run has built a mix whose second stem ended before the first (the
\* pipeline) and one whose second stem was cut to the first (the verifier).
C15_Witness ==
  \E w \in Workers :
    /\ adj[w].wrote /\ Len(adj[w].stems) = 2
    /\ Len(adj[w].stems[2].samples) < Len(adj[w].stems[1].samples)
    /\ ver[w].result # "none" /\ Len(ver[w].stems) = 2
    /\ Len(ver[w].stems[2].samples) > Len(ver[w].stems[1].samples)
    /\ Len(ver[w].mix) = 1 /\ Len(adj[w].mix) = 2

\* Every order the stems of a sequence can be put in.
Permuted(stems) ==
  {[k \in 1..Len(stems) |-> stems[o[k]]] : o \in Orders(1..Len(stems))}

SameFirstDuration(p, stems) == Len(p[1].samples) = Len(stems[1].samples)

C17_DecodeFailureWritesNothing ==
  [][\A w \in Workers :
       AdjustStep(w)
       /\ (\E f \in AudioNames(input.subs[Current(w)]) :
             input.subs[Current(w)].files[f].kind = "corrupt")
       => /\ raised'[w] = "DecodeError"
          /\ pc'[w] = "except"
          /\ adj'[w].adjusted = <<>> /\ ~adj'[w].wrote
          /\ output' = output]_vars

\* A run has raised on a folder that holds an unreadable stem beside a
\* readable one, and the folder has no output folder.
C17_Witness ==
  \E w \in Workers :
    /\ pc[w] = "except" /\ raised[w] = "DecodeError"
    /\ input.subs[Current(w)].files[<<"a", ".wav">>].kind = "corrupt"
    /\ input.subs[Current(w)].files[<<"b", ".WAV">>].kind = "audio"
    /\ ~output[OutName(Current(w), target[w])].exists

====
